---- MODULE Spec2Model ----
(***************************************************************************)
(* The layer definitions of transformer-checkpoint.ipynb as a state        *)
(* machine.  A behaviour is one use of the notebook's classes: the initial *)
(* state fixes which callable is used and its arguments, and one action    *)
(* per callable performs the call as the Python code does, including the   *)
(* exception a statement raises.                                           *)
(*                                                                         *)
(* Numbers.  Tensors hold fixed-point integers:                            *)
(*   - attention scores are whole numbers (the inputs are chosen so that   *)
(*     q.k / sqrt(d_k) is whole);                                          *)
(*   - exp() is tabulated in units of 1/ExpScale, and keeps float32's      *)
(*     underflow: it is exactly 0 below -ExpUnderflow and at least one     *)
(*     unit above it;                                                      *)
(*   - attention weights are in units of 1/WeightScale;                    *)
(*   - activations of LayerNormalization / ResidualConnection are in units *)
(*     of 1/ActScale.                                                      *)
(* One (batch, head) slice of the rank-4 tensors is modelled: attention    *)
(* treats the slices independently.                                        *)
(***************************************************************************)
EXTENDS Integers, Sequences, FiniteSets, TLC

VARIABLES scenario, args, pc, results

vars == <<scenario, args, pc, results>>

(***************************************************************************)
(* Bounds of the model.                                                    *)
(***************************************************************************)
MaxLen == 2
MaxWidth == 3
MaxDModel == 10
MaxHeads == 3
MaxLayers == 2
MaxCalls == 2

(***************************************************************************)
(* Fixed-point scales.                                                     *)
(***************************************************************************)
ExpScale == 1000
WeightScale == 1000000
ActScale == 100
ExpUnderflow == 103

(***************************************************************************)
(* Arithmetic helpers.                                                     *)
(***************************************************************************)
Abs(a) == IF a < 0 THEN 0 - a ELSE a

\* a / b rounded to the nearest integer (b > 0), as a float division rounds.
RoundDiv(a, b) ==
    IF a >= 0 THEN (a + b \div 2) \div b ELSE 0 - ((b \div 2 - a) \div b)

RECURSIVE SqrtSearch(_, _, _)
SqrtSearch(n, lo, hi) ==
    IF lo >= hi THEN lo
    ELSE LET mid == (lo + hi + 1) \div 2
         IN  IF mid * mid <= n THEN SqrtSearch(n, mid, hi)
             ELSE SqrtSearch(n, lo, mid - 1)

\* floor(sqrt(n)), n < 2^31
ISqrt(n) == SqrtSearch(n, 0, 46340)

RECURSIVE SumSeq(_)
SumSeq(s) == IF s = <<>> THEN 0 ELSE Head(s) + SumSeq(Tail(s))

RECURSIVE MaxSeq(_)
MaxSeq(s) ==
    IF Len(s) = 1 THEN s[1]
    ELSE LET m == MaxSeq(Tail(s)) IN IF s[1] >= m THEN s[1] ELSE m

Dot(a, b) == SumSeq([c \in 1..Len(a) |-> a[c] * b[c]])

(***************************************************************************)
(* Python name resolution.  A name a function body reads is looked up in   *)
(* the function's locals, then in the notebook's namespace, then in the    *)
(* builtins; a name found nowhere raises NameError when the statement      *)
(* runs.                                                                   *)
(***************************************************************************)
NotebookNamespace ==
    [n \in {"math", "torch", "nn"} |-> "module"] @@
    [n \in {"InputEmbedding", "PositionalEncoding", "LayerNormalization",
            "FeedForwardBlock", "MultiHeadAttentionBlock",
            "ResidualConnection", "EncoderBlock", "Encoder"} |-> "class"]

Builtins == {"super", "range"}

Unbound(names, locals) ==
    names \ (locals \cup DOMAIN NotebookNamespace \cup Builtins)

\* torch.Tensor has no attribute of that name
TensorAttributes == {"view", "transpose", "contiguous", "shape", "softmax",
                     "masked_fill_", "mean", "std"}

NoTensor == <<>>

(***************************************************************************)
(* float32 values the attention code can produce besides finite numbers.   *)
(* NegInf only ever stands for itself (no arithmetic is done on it); NaN   *)
(* marks a weight or an output that is not a number (weights are >= 0      *)
(* otherwise).                                                             *)
(***************************************************************************)
NegInf == -2147483647
NaN == -1

\* variant: masked positions filled with -inf instead of a finite number
SentinelNegInf == NegInf

\* masked_fill_(mask == 0, -1e9), line 228
Sentinel == -1000000000

\* round(ExpScale * e^(-n)) for n = 0..7
ExpTable == <<1000, 368, 135, 50, 18, 7, 2, 1>>

\* exp(d) for d <= 0 in units of 1/ExpScale: float32 exp underflows to
\* exactly 0 below -ExpUnderflow and is positive above it.
ExpFix(d) ==
    IF d < 0 - ExpUnderflow THEN 0
    ELSE IF d < 1 - Len(ExpTable) THEN 1
    ELSE ExpTable[1 - d]

(***************************************************************************)
(* nn.Dropout.  A module is in training mode after construction; eval()    *)
(* makes it the identity.  In training mode each element is zeroed with    *)
(* probability p and the kept ones are scaled by 1/(1-p); keep is the      *)
(* random draw.  p is in percent.                                          *)
(***************************************************************************)
NoDropout == [present |-> FALSE, p |-> 0, training |-> FALSE]

DropoutActive(d) == d.present /\ d.training /\ d.p > 0

DropoutScalar(d, w, keep) ==
    IF ~d.present \/ ~d.training THEN w
    ELSE IF w = NaN THEN NaN
    ELSE IF d.p = 100 \/ ~keep THEN 0
    ELSE RoundDiv(w * 100, 100 - d.p)

(***************************************************************************)
(* MultiHeadAttentionBlock.attention (static method), lines 221-235.       *)
(***************************************************************************)
NoMask == <<>>

\* line 225: (query @ key.transpose(-2, -1)) / math.sqrt(d_k)
ScaledScores(query, key) ==
    LET d_k == Len(query[1])
    IN  [i \in 1..Len(query) |->
            [j \in 1..Len(key) |-> RoundDiv(Dot(query[i], key[j]), ISqrt(d_k))]]

\* variant: the mask is ignored
MaskedFillIgnoresMask(scores, mask) == scores

\* lines 227-228: attention_scores.masked_fill_(mask == 0, -1e9)
MaskedFill(scores, mask) ==
    IF mask = NoMask THEN scores
    ELSE [i \in 1..Len(scores) |->
            [j \in 1..Len(scores[i]) |->
                IF mask[i][j] = 0 THEN Sentinel ELSE scores[i][j]]]

\* variant: exponentials not divided by their sum
SoftmaxRowUnnormalised(row) ==
    LET m == MaxSeq(row)
    IN  [j \in 1..Len(row) |->
            ExpFix(row[j] - m) * (WeightScale \div ExpScale)]

\* softmax over one row: exp(s - max) / sum(exp(s - max))
SoftmaxRow(row) ==
    LET m  == MaxSeq(row)
        e  == [j \in 1..Len(row) |->
                 IF row[j] = NegInf THEN 0 ELSE ExpFix(row[j] - m)]
        sm == SumSeq(e)
    IN  IF m = NegInf \/ sm = 0
        THEN [j \in 1..Len(row) |-> NaN]
        ELSE [j \in 1..Len(row) |-> RoundDiv(e[j] * WeightScale, sm)]

\* line 230: attention_scores.softmax(dim=-1)
Softmax(scores) == [i \in 1..Len(scores) |-> SoftmaxRow(scores[i])]

\* nn.Dropout.forward on a rank-2 tensor
DropoutTensor(d, t, keep) ==
    [i \in 1..Len(t) |->
        [j \in 1..Len(t[i]) |-> DropoutScalar(d, t[i][j], keep[i][j])]]

\* line 235: attention_scores @ value
WeightedSum(w, value) ==
    [i \in 1..Len(w) |->
        [c \in 1..Len(value[1]) |->
            IF \E j \in 1..Len(w[i]) : w[i][j] = NaN THEN NaN
            ELSE SumSeq([j \in 1..Len(w[i]) |-> w[i][j] * value[j][c]])]]

\* lines 232-235: dropout(attention_scores) when a dropout module is given
ReturnedWeights(soft, d, keep) ==
    IF d.present THEN DropoutTensor(d, soft, keep) ELSE soft

Attention(query, key, value, mask, dropout, keep) ==
    LET scores  == ScaledScores(query, key)
        filled  == MaskedFill(scores, mask)
        soft    == Softmax(filled)
        weights == ReturnedWeights(soft, dropout, keep)
    IN  [raised  |-> "none",
         scores  |-> scores,
         filled  |-> filled,
         soft    |-> soft,
         weights |-> weights,
         out     |-> WeightedSum(weights, value)]

(***************************************************************************)
(* Rank-2 tensors (positions x features) of activations.                   *)
(***************************************************************************)
Add(a, b) == [i \in 1..Len(a) |-> [c \in 1..Len(a[i]) |-> a[i][c] + b[i][c]]]

(***************************************************************************)
(* LayerNormalization, lines 147-157.  alpha and bias are the parameters   *)
(* as constructed (ones(1), zeros(1)); nothing in the notebook updates     *)
(* them.  eps is in units of 1e-6.                                         *)
(***************************************************************************)
EpsMicro == 1

NewLayerNormalization == [eps |-> EpsMicro, alpha |-> 1, bias |-> 0]

\* alpha * (x - mean) / (std + eps) + bias over one feature vector, d >= 2.
\* With D[c] = d*x[c] - sum(x) (the deviation in units of 1/(ActScale*d)),
\* std is sqrt(sum(D^2) / (d-1)) in the same units (torch.std is unbiased).
LayerNormRow(self, v) ==
    LET d    == Len(v)
        sm   == SumSeq(v)
        D    == [c \in 1..d |-> d * v[c] - sm]
        S    == SumSeq([c \in 1..d |-> D[c] * D[c]])
        std  == ISqrt((S * 100) \div (d - 1))        \* 10 * std
        den  == std * 1000 + (self.eps * ActScale * d) \div 100
    IN  [c \in 1..d |->
            self.alpha * RoundDiv(D[c] * ActScale * 10000, den)
                + self.bias * ActScale]

LayerNorm(self, x) == [i \in 1..Len(x) |-> LayerNormRow(self, x[i])]

(***************************************************************************)
(* FeedForwardBlock, lines 175-187.                                        *)
(***************************************************************************)
Linear(lin, x) ==
    [i \in 1..Len(x) |->
        [o \in 1..Len(lin.weight) |-> Dot(lin.weight[o], x[i]) + lin.bias[o]]]

Relu(x) ==
    [i \in 1..Len(x) |-> [c \in 1..Len(x[i]) |-> IF x[i][c] > 0 THEN x[i][c] ELSE 0]]

FeedForward(self, x, keep) ==
    LET x1 == Linear(self.linear_1, x)
        x2 == Relu(x1)
        x3 == DropoutTensor(self.dropout, x2, keep)
    IN  Linear(self.linear_2, x3)

(***************************************************************************)
(* Calling a Python function: the positional arguments must match the      *)
(* parameters (TypeError otherwise); then the statements run in order.  A  *)
(* statement reads names (NameError when one is bound nowhere), looks up   *)
(* tensor methods (AttributeError when torch.Tensor has none of that       *)
(* name), reads the names of the method's arguments, binds the names it    *)
(* assigns and sets attributes on self.                                    *)
(***************************************************************************)
RECURSIVE RunStatements(_, _, _, _)
RunStatements(stmts, i, locals, stored) ==
    IF i > Len(stmts) THEN [raised |-> "none", line |-> 0, stored |-> stored]
    ELSE LET st == stmts[i]
         IN  IF Unbound(st.reads, locals) # {}
             THEN [raised |-> "NameError", line |-> st.line, stored |-> stored]
             ELSE IF st.methods \ TensorAttributes # {}
             THEN [raised |-> "AttributeError", line |-> st.line,
                   stored |-> stored]
             ELSE IF Unbound(st.argreads, locals) # {}
             THEN [raised |-> "NameError", line |-> st.line, stored |-> stored]
             ELSE IF ~st.shape_ok
             THEN [raised |-> "RuntimeError", line |-> st.line,
                   stored |-> stored]
             ELSE RunStatements(stmts, i + 1, locals \cup st.assigns,
                                stored \cup st.stores)

\* globals: the names the caller's own cells have bound in the notebook's
\* namespace besides those of NotebookNamespace
CallFunction(def, nargs, globals) ==
    IF nargs # Len(def.params)
    THEN [raised |-> "TypeError", line |-> def.line, stored |-> {}]
    ELSE RunStatements(def.body, 1,
                       {def.params[i] : i \in 1..Len(def.params)}
                           \cup globals.names,
                       {})

\* the notebook's namespace as its own cells leave it
NoGlobals == [names |-> {}, d_mode |-> 0]

(***************************************************************************)
(* MultiHeadAttentionBlock.__init__, lines 206-218.  Line 211 reads        *)
(* d_mode, which is no parameter: the name is looked up in the notebook's  *)
(* namespace.                                                              *)
(***************************************************************************)
NoBlock == [d_model |-> 0, h |-> 0, d_k |-> 0]

MHAInit(d_model, h, dropout, globals) ==
    LET locals == {"self", "d_model", "h", "dropout"} \cup globals.names
    IN  IF Unbound({"d_mode", "h"}, locals) # {}        \* line 211
        THEN [raised |-> "NameError", line |-> 211, block |-> NoBlock]
        ELSE [raised |-> "none", line |-> 0,
              block |-> [d_model |-> d_model, h |-> h,
                         d_k |-> globals.d_mode \div h]]

(***************************************************************************)
(* MultiHeadAttentionBlock.forward, lines 237-252: def forward(q, k, v,    *)
(* mask), statement by statement.  block is what the name self resolves    *)
(* to, width the size of the last axis of q, k and v; view (lines 243-245) *)
(* needs h * d_k to be that size.                                          *)
(***************************************************************************)
MHAForwardDef(block, width) ==
    [line   |-> 237,
     params |-> <<"q", "k", "v", "mask">>,
     body   |-> <<
       [line |-> 238, reads |-> {"self"}, methods |-> {}, argreads |-> {"q"},
        shape_ok |-> TRUE, assigns |-> {"query"}, stores |-> {}],
       [line |-> 239, reads |-> {"self"}, methods |-> {}, argreads |-> {"k"},
        shape_ok |-> TRUE, assigns |-> {"key"}, stores |-> {}],
       [line |-> 240, reads |-> {"self"}, methods |-> {}, argreads |-> {"v"},
        shape_ok |-> TRUE, assigns |-> {"value"}, stores |-> {}],
       [line |-> 243, reads |-> {"query"}, methods |-> {"view", "transpose"},
        argreads |-> {"query", "self"},
        shape_ok |-> block.h * block.d_k = width,
        assigns |-> {"query"}, stores |-> {}],
       [line |-> 244, reads |-> {"key"}, methods |-> {"view", "transpose"},
        argreads |-> {"key", "self"},
        shape_ok |-> block.h * block.d_k = width,
        assigns |-> {"key"}, stores |-> {}],
       [line |-> 245, reads |-> {"value"}, methods |-> {"view", "transpose"},
        argreads |-> {"value", "self"},
        shape_ok |-> block.h * block.d_k = width,
        assigns |-> {"value"}, stores |-> {}],
       [line |-> 247, reads |-> {"MultiHeadAttentionBlock"}, methods |-> {},
        argreads |-> {"query", "key", "value", "mask", "self"},
        shape_ok |-> TRUE,
        assigns |-> {"x"}, stores |-> {"attention_scores"}],
       [line |-> 250, reads |-> {"x"}, methods |-> {"transpose", "contigous"},
        argreads |-> {"x", "self"}, shape_ok |-> TRUE,
        assigns |-> {"x"}, stores |-> {}],
       [line |-> 252, reads |-> {"self"}, methods |-> {}, argreads |-> {"x"},
        shape_ok |-> TRUE, assigns |-> {}, stores |-> {}] >>]

\* nn.Module.__call__ on a block: self.forward(*args), the block itself
\* being the first positional argument
MHACallBlock(block, width, nargs, globals) ==
    CallFunction(MHAForwardDef(block, width), nargs + 1, globals)

\* MultiHeadAttentionBlock.forward(q, k, v, mask), the function itself; a
\* caller that has bound the name self has bound it to a block it made
MHACallFunction(d_model, h, dropout, width, nargs, globals) ==
    LET made == IF "self" \in globals.names
                THEN MHAInit(d_model, h, dropout, globals).block
                ELSE NoBlock
    IN  CallFunction(MHAForwardDef(made, width), nargs, globals)

\* MultiHeadAttentionBlock(d_model, h, dropout)(q, k, v, mask)
MHAConstructAndCall(d_model, h, dropout, width, globals) ==
    LET made == MHAInit(d_model, h, dropout, globals)
    IN  IF made.raised # "none"
        THEN [raised |-> made.raised, line |-> made.line, stored |-> {}]
        ELSE MHACallBlock(made.block, width, 4, globals)

(***************************************************************************)
(* Sublayers handed to a residual connection: the two lambdas of           *)
(* EncoderBlock.forward (lines 310 and 312), and sample functions standing *)
(* for an arbitrary sublayer.                                              *)
(***************************************************************************)
Scale(x, k) == [i \in 1..Len(x) |-> [c \in 1..Len(x[i]) |-> k * x[i][c]]]

ApplySublayer(f, x) ==
    CASE f.kind = "self_attention_lambda" ->
            \* lambda x: self.self_attention_block(x, x, x, src_mask, dropout)
            IF Unbound({"self", "x", "src_mask", "dropout"},
                       {"x"} \cup f.enclosing) # {}
            THEN [raised |-> "NameError", line |-> 310, val |-> NoTensor]
            ELSE LET r == MHACallBlock(NoBlock, Len(x[1]), 5, NoGlobals)
                 IN  [raised |-> r.raised, line |-> r.line, val |-> NoTensor]
      [] f.kind = "feed_forward_lambda" ->
            \* lambda x: self.feed_forward_block(x)
            [raised |-> "none", line |-> 0,
             val |-> FeedForward(f.block, x, f.keep)]
      [] f.kind = "scale" ->
            [raised |-> "none", line |-> 0, val |-> Scale(x, f.by)]
      [] f.kind = "constant" ->
            [raised |-> "none", line |-> 0,
             val |-> [i \in 1..Len(x) |-> [c \in 1..Len(x[i]) |-> f.value]]]

(***************************************************************************)
(* ResidualConnection, lines 270-277.  The trace lists the calls forward   *)
(* makes, in the order Python evaluates them.                              *)
(***************************************************************************)
NewResidualConnection(dropout) ==
    [dropout |-> dropout, norm |-> NewLayerNormalization]

\* variant: post-norm, normalize(x + dropout(f(x)))
ResidualForwardPostNorm(self, x, sublayer, keep) ==
    LET sub     == ApplySublayer(sublayer, x)
        dropped == DropoutTensor(self.dropout, sub.val, keep)
        sum     == Add(x, dropped)
        out     == LayerNorm(self.norm, sum)
    IN  [raised |-> "none", line |-> 0, out |-> out,
         trace  |-> << [op |-> "sublayer", kind |-> sublayer.kind,
                        arg |-> x, val |-> sub.val],
                       [op |-> "dropout", arg |-> sub.val, val |-> dropped],
                       [op |-> "add", lhs |-> x, rhs |-> dropped],
                       [op |-> "norm", arg |-> sum, val |-> out] >>]

ResidualForward(self, x, sublayer, keep) ==
    LET normed == LayerNorm(self.norm, x)
        sub    == ApplySublayer(sublayer, normed)
        t2     == << [op |-> "norm", arg |-> x, val |-> normed],
                     [op |-> "sublayer", kind |-> sublayer.kind,
                      arg |-> normed, val |-> sub.val] >>
    IN  IF sub.raised # "none"
        THEN [raised |-> sub.raised, line |-> sub.line, out |-> NoTensor,
              trace |-> t2]
        ELSE LET dropped == DropoutTensor(self.dropout, sub.val, keep)
             IN  [raised |-> "none", line |-> 0,
                  out    |-> Add(x, dropped),
                  trace  |-> t2 \o
                     << [op |-> "dropout", arg |-> sub.val, val |-> dropped],
                        [op |-> "add", lhs |-> x, rhs |-> dropped] >>]

(***************************************************************************)
(* EncoderBlock, lines 295-313.  forward never looks at what               *)
(* self_attention_block is before the lambda of line 310 runs, so the      *)
(* block holds it as an opaque module.                                     *)
(***************************************************************************)
NewEncoderBlock(self_attention_block, feed_forward_block, dropout) ==
    [self_attention_block |-> self_attention_block,
     feed_forward_block   |-> feed_forward_block,
     residual_connections |->
         [r \in 1..2 |-> NewResidualConnection(dropout)]]

Tag(trace, layer) ==
    [e \in 1..Len(trace) |-> [layer |-> layer, event |-> trace[e]]]

\* line 312, given what line 310 returned
EncoderBlockSecond(self, keeps, layer, r0, r1) ==
    [raised |-> r1.raised, line |-> r1.line, out |-> r1.out,
     trace |-> Tag(r0.trace \o r1.trace, layer)]

\* lines 310-313, given what the first residual connection returned
EncoderBlockFirst(self, keeps, layer, r0) ==
    IF r0.raised # "none"
    THEN [raised |-> r0.raised, line |-> r0.line, out |-> NoTensor,
          trace |-> Tag(r0.trace, layer)]
    ELSE EncoderBlockSecond(self, keeps, layer, r0,
             ResidualForward(self.residual_connections[2], r0.out,
                 [kind |-> "feed_forward_lambda",
                  block |-> self.feed_forward_block,
                  keep |-> keeps[3]], keeps[2]))

EncoderBlockForward(self, x, src_mask, keeps, layer) ==
    EncoderBlockFirst(self, keeps, layer,
        ResidualForward(self.residual_connections[1], x,
            [kind |-> "self_attention_lambda",
             enclosing |-> {"self", "x", "src_mask"}], keeps[1]))

(***************************************************************************)
(* Encoder, lines 331-341.                                                 *)
(***************************************************************************)
NewEncoder(layers) == [layers |-> layers, norm |-> NewLayerNormalization]

\* for layer in self.layers: x = layer(x, mask)
RECURSIVE EncoderLoop(_, _, _, _, _, _)
RECURSIVE EncoderLoopStep(_, _, _, _, _, _)
EncoderLoopStep(layers, i, mask, keeps, trace, r) ==
    IF r.raised # "none"
    THEN [raised |-> r.raised, line |-> r.line, out |-> NoTensor,
          trace |-> trace \o r.trace]
    ELSE EncoderLoop(layers, i + 1, r.out, mask, keeps, trace \o r.trace)

EncoderLoop(layers, i, x, mask, keeps, trace) ==
    IF i > Len(layers)
    THEN [raised |-> "none", line |-> 0, out |-> x, trace |-> trace]
    ELSE EncoderLoopStep(layers, i, mask, keeps, trace,
             EncoderBlockForward(layers[i], x, mask, keeps, i))

\* return self.norm(x), given what the loop left in x
EncoderReturn(self, r) ==
    IF r.raised # "none" THEN r
    ELSE [raised |-> "none", line |-> 0,
          out    |-> LayerNorm(self.norm, r.out),
          trace  |-> r.trace \o
             << [layer |-> 0,
                 event |-> [op |-> "norm", arg |-> r.out,
                            val |-> LayerNorm(self.norm, r.out)]] >>]

EncoderForward(self, x, mask, keeps) ==
    EncoderReturn(self, EncoderLoop(self.layers, 1, x, mask, keeps, <<>>))

(***************************************************************************)
(* Arguments of an attention call.                                         *)
(***************************************************************************)
Vec(v, n) == [c \in 1..n |-> v]

DkVals == {1, 4}

QueryRows(dk) ==
    IF dk = 1 THEN {<<v>> : v \in {-1000000000, -999999950, 1}}
    ELSE {Vec(v, dk) : v \in {1, 2}}

ValueChoices(L, dk) ==
    {[j \in 1..L |-> Vec(1, dk)], [j \in 1..L |-> Vec(j, dk)]}

\* mask[i][j] = 0 exactly when j > i
CausalMask(L) == [i \in 1..L |-> [j \in 1..L |-> IF j > i THEN 0 ELSE 1]]

\* the rows in R are entirely zero, the others entirely one
RowZeroMask(L, R) == [i \in 1..L |-> [j \in 1..L |-> IF i \in R THEN 0 ELSE 1]]

Masks(L) ==
    {NoMask, CausalMask(L), RowZeroMask(L, 1..L)} \cup
    {RowZeroMask(L, {r}) : r \in 1..L}

AllKept(R, C) == [i \in 1..R |-> [j \in 1..C |-> TRUE]]

\* draws of the dropout mask of an R x C tensor: nothing dropped, everything
\* dropped, exactly one element dropped
KeepMasks(R, C) ==
    {AllKept(R, C), [i \in 1..R |-> [j \in 1..C |-> FALSE]]} \cup
    {[i \in 1..R |-> [j \in 1..C |-> ~(i = a /\ j = b)]] :
        a \in 1..R, b \in 1..C}

KeepDraws(d, R, C) ==
    IF DropoutActive(d) THEN KeepMasks(R, C) ELSE {AllKept(R, C)}

DropoutModules ==
    {NoDropout,
     [present |-> TRUE, p |-> 50, training |-> FALSE],
     [present |-> TRUE, p |-> 0, training |-> TRUE],
     [present |-> TRUE, p |-> 50, training |-> TRUE]}

\* keys: every row all ones, or one row all zeros
KeyChoices(L, dk) ==
    {[j \in 1..L |-> Vec(IF j = z THEN 0 ELSE 1, dk)] : z \in 0..L}

\* without dropout or with dropout in eval mode: every mask; with active
\* dropout: every draw of the dropout mask
AttentionArgs ==
    UNION {
      {[L |-> L, query |-> q, key |-> k, value |-> v, mask |-> m,
        dropout |-> d, keep |-> kp] :
          q \in [1..L -> QueryRows(dk)], k \in KeyChoices(L, dk),
          v \in ValueChoices(L, dk), m \in Masks(L),
          d \in {x \in DropoutModules : ~x.training},
          kp \in {AllKept(L, L)}}
      \cup
      UNION {
        {[L |-> L, query |-> q, key |-> k, value |-> v, mask |-> m,
          dropout |-> d, keep |-> kp] :
            q \in [1..L -> QueryRows(dk)], k \in KeyChoices(L, dk),
            v \in {[j \in 1..L |-> Vec(j, dk)]},
            m \in {NoMask, CausalMask(L)},
            kp \in KeepDraws(d, L, L)}
        : d \in {x \in DropoutModules : x.training}}
      : L \in 1..MaxLen, dk \in DkVals}

(***************************************************************************)
(* Arguments of the other calls.                                           *)
(***************************************************************************)
XVals == {0, ActScale, 2 * ActScale}

\* rows of an encoder input of width 2
EncoderRows == {<<0, ActScale>>, <<ActScale, 0>>, <<2 * ActScale, ActScale>>}

Tensors(L, d) == [1..L -> [1..d -> XVals]]

\* what the caller has bound besides the notebook's own names: nothing, or
\* d_mode (to 8 or to the d_model it passes)
MHAInitArgs ==
    UNION {
      {[d_model |-> dm, h |-> h, dropout |-> p, globals |-> g] :
          h \in 1..MaxHeads, p \in {0, 10},
          g \in {NoGlobals} \cup
                {[names |-> {"d_mode"}, d_mode |-> v] : v \in {8, dm}}}
      : dm \in 1..MaxDModel}

\* what the caller has bound: nothing, d_mode, or d_mode and self (a block
\* can only be made, and bound to a name, once d_mode is bound)
MHAForwardArgs ==
    UNION {
      {[form |-> f, d_model |-> dm, h |-> h, dropout |-> 0, L |-> L,
        x |-> [i \in 1..L |-> Vec(v, dm)], mask |-> m, globals |-> g] :
          f \in {"block", "function"}, h \in 1..MaxHeads, v \in XVals,
          m \in {NoMask, CausalMask(L)},
          g \in {NoGlobals, [names |-> {"d_mode"}, d_mode |-> dm],
                 [names |-> {"d_mode", "self"}, d_mode |-> dm]}}
      : L \in 1..MaxLen, dm \in 1..MaxDModel}

Identity(d) == [o \in 1..d |-> [c \in 1..d |-> IF o = c THEN 1 ELSE 0]]

\* a feed-forward block with some weights (nn.Linear draws them at random)
SampleFeedForward(d) ==
    [linear_1 |-> [weight |-> [o \in 1..d |->
                                  [c \in 1..d |-> IF o = c THEN 1 ELSE -1]],
                   bias   |-> Vec(0, d)],
     dropout  |-> [present |-> TRUE, p |-> 0, training |-> TRUE],
     linear_2 |-> [weight |-> Identity(d), bias |-> Vec(ActScale, d)]]

SampleSublayers(L, d) ==
    {[kind |-> "scale", by |-> -1], [kind |-> "scale", by |-> 2],
     [kind |-> "constant", value |-> ActScale],
     [kind |-> "feed_forward_lambda", block |-> SampleFeedForward(d),
      keep |-> AllKept(L, d)]}

ModuleDropouts == DropoutModules \ {NoDropout}

ResidualArgs ==
    UNION {
      {[x |-> x, sublayer |-> f, self |-> NewResidualConnection(dr),
        keep |-> kp] :
          x \in Tensors(1, d), f \in SampleSublayers(1, d),
          kp \in KeepDraws(dr, 1, d)}
      : d \in 2..MaxWidth, dr \in ModuleDropouts}

EncoderBlockArgs ==
    UNION {
      {[x |-> x, mask |-> m,
        self |-> NewEncoderBlock("self_attention_block",
                                 SampleFeedForward(2), dr)] :
          x \in [1..L -> EncoderRows], m \in Masks(L)}
      : L \in 1..MaxLen, dr \in ModuleDropouts}

EncoderArgs ==
    UNION {
      {[x |-> x, mask |-> m,
        self |-> NewEncoder([i \in 1..N |->
                    NewEncoderBlock("self_attention_block",
                                    SampleFeedForward(2), dr)]),
        keeps |-> <<AllKept(L, 2), AllKept(L, 2), AllKept(L, 2)>>] :
          x \in [1..L -> EncoderRows], m \in Masks(L)}
      : L \in 1..MaxLen, N \in 1..MaxLayers, dr \in ModuleDropouts}

(***************************************************************************)
(* The state machine.                                                      *)
(***************************************************************************)
Scenarios == {"attention", "mha_init", "mha_forward", "residual",
              "encoder_block", "encoder"}

ArgsOf(s) ==
    CASE s = "attention"     -> AttentionArgs
      [] s = "mha_init"      -> MHAInitArgs
      [] s = "mha_forward"   -> MHAForwardArgs
      [] s = "residual"      -> ResidualArgs
      [] s = "encoder_block" -> EncoderBlockArgs
      [] s = "encoder"       -> EncoderArgs

Init ==
    /\ scenario \in Scenarios
    /\ args \in ArgsOf(scenario)
    /\ pc = "start"
    /\ results = <<>>

\* MultiHeadAttentionBlock.attention(query, key, value, mask, dropout)
CallAttention ==
    /\ scenario = "attention"
    /\ pc = "start"
    /\ results' = Append(results,
                      Attention(args.query, args.key, args.value, args.mask,
                                args.dropout, args.keep))
    /\ pc' = "done"
    /\ UNCHANGED <<scenario, args>>

\* MultiHeadAttentionBlock(d_model, h, dropout)
ConstructMHA ==
    /\ scenario = "mha_init"
    /\ pc = "start"
    /\ results' = Append(results, MHAInit(args.d_model, args.h, args.dropout,
                              args.globals))
    /\ pc' = "done"
    /\ UNCHANGED <<scenario, args>>

\* a forward pass of multi-head attention, either on a block built for the
\* purpose or by calling the function with its four arguments
CallMHAForward ==
    /\ scenario = "mha_forward"
    /\ pc = "start"
    /\ \/ /\ args.form = "block"
          /\ results' = Append(results,
                 MHAConstructAndCall(args.d_model, args.h, args.dropout,
                                     args.d_model, args.globals))
       \/ /\ args.form = "function"
          /\ results' = Append(results,
                 MHACallFunction(args.d_model, args.h, args.dropout,
                                 args.d_model, 4, args.globals))
    /\ pc' = "done"
    /\ UNCHANGED <<scenario, args>>

\* ResidualConnection.forward(x, sublayer)
CallResidual ==
    /\ scenario = "residual"
    /\ pc = "start"
    /\ results' = Append(results,
                      ResidualForward(args.self, args.x, args.sublayer,
                                      args.keep))
    /\ pc' = "done"
    /\ UNCHANGED <<scenario, args>>

\* EncoderBlock.forward(x, src_mask), called MaxCalls times on the same
\* block with the same input; every call draws its own dropout masks
CallEncoderBlock ==
    /\ scenario = "encoder_block"
    /\ pc \in {"start", "called"}
    /\ Len(results) < MaxCalls
    /\ \E kp \in KeepDraws(args.self.residual_connections[1].dropout,
                           Len(args.x), Len(args.x[1])) :
          results' = Append(results,
                         EncoderBlockForward(args.self, args.x, args.mask,
                             <<kp, kp, AllKept(Len(args.x), Len(args.x[1]))>>,
                             1))
    /\ pc' = IF Len(results) + 1 = MaxCalls THEN "done" ELSE "called"
    /\ UNCHANGED <<scenario, args>>

\* Encoder.forward(x, mask)
CallEncoder ==
    /\ scenario = "encoder"
    /\ pc = "start"
    /\ results' = Append(results,
                      EncoderForward(args.self, args.x, args.mask, args.keeps))
    /\ pc' = "done"
    /\ UNCHANGED <<scenario, args>>

Next ==
    \/ CallAttention
    \/ ConstructMHA
    \/ CallMHAForward
    \/ CallResidual
    \/ CallEncoderBlock
    \/ CallEncoder

Spec == Init /\ [][Next]_vars

(***************************************************************************)
(* The attention call of a finished behaviour.                             *)
(***************************************************************************)
AttentionDone == scenario = "attention" /\ pc = "done"

AttentionResult == results[1]

\* the largest score of row i among the positions the mask lets through
RowHasUnmasked(i) == \E j \in 1..args.L : args.mask[i][j] # 0

MaxUnmasked(i) ==
    LET js == {j \in 1..args.L : args.mask[i][j] # 0}
        r  == AttentionResult.scores[i]
    IN  CHOOSE m \in {r[j] : j \in js} : \A j \in js : r[j] <= m

RowSum(w, i) == SumSeq(w[i])

\* 1e-5 in units of 1/WeightScale
RowSumTolerance == WeightScale \div 100000

(***************************************************************************)
(* C2 as stated: with a fully causal mask, weight[i][j] = 0 for all j > i, *)
(* whatever the query and key values are.                                  *)
(***************************************************************************)
C2_CausalZeroWhateverScores ==
    (AttentionDone /\ args.mask = CausalMask(args.L)) =>
        \A i \in 1..args.L : \A j \in 1..args.L :
            j > i => AttentionResult.weights[i][j] = 0

(***************************************************************************)
(* C2 amended: with a fully causal mask, weight[i][j] = 0 for all j > i in *)
(* every row i whose largest unmasked score lies above the sentinel -1e9   *)
(* by more than the range below which exp underflows to zero.              *)
(***************************************************************************)
C2_CausalZeroAboveSentinel ==
    (AttentionDone /\ args.mask = CausalMask(args.L)) =>
        \A i \in 1..args.L :
            MaxUnmasked(i) - Sentinel > ExpUnderflow =>
                \A j \in 1..args.L :
                    j > i => AttentionResult.weights[i][j] = 0

\* a causal call of length >= 2 whose first row has a future position, a
\* score far above the sentinel and a positive weight on itself
C2_Witness ==
    /\ AttentionDone
    /\ args.L >= 2
    /\ args.mask = CausalMask(args.L)
    /\ MaxUnmasked(1) - Sentinel > ExpUnderflow
    /\ AttentionResult.weights[1][1] > 0
    /\ AttentionResult.weights[1][2] = 0
    /\ AttentionResult.scores[1][2] > AttentionResult.scores[1][1]

(***************************************************************************)
(* C3 as stated: for any mask-free input the returned weights of every     *)
(* query position are non-negative and sum to 1 within 1e-5.               *)
(***************************************************************************)
C3_RowsSumToOne ==
    (AttentionDone /\ args.mask = NoMask) =>
        \A i \in 1..args.L :
            /\ \A j \in 1..args.L : AttentionResult.weights[i][j] >= 0
            /\ Abs(RowSum(AttentionResult.weights, i) - WeightScale)
                   <= RowSumTolerance

(***************************************************************************)
(* C3 amended: for any mask-free input the returned weights of every query *)
(* position are non-negative, and they sum to 1 within 1e-5 when dropout   *)
(* is not active (no dropout module, evaluation mode, or p = 0).           *)
(***************************************************************************)
C3_RowsSumToOneWithoutDropout ==
    (AttentionDone /\ args.mask = NoMask) =>
        \A i \in 1..args.L :
            /\ \A j \in 1..args.L : AttentionResult.weights[i][j] >= 0
            /\ ~DropoutActive(args.dropout) =>
                   Abs(RowSum(AttentionResult.weights, i) - WeightScale)
                       <= RowSumTolerance

\* a mask-free call in evaluation mode whose first row is not uniform
C3_Witness ==
    /\ AttentionDone
    /\ args.mask = NoMask
    /\ args.L >= 2
    /\ args.dropout.present /\ ~args.dropout.training
    /\ AttentionResult.weights[1][1] # AttentionResult.weights[1][2]
    /\ AttentionResult.weights[1][1] > 0
    /\ AttentionResult.weights[1][2] > 0

(***************************************************************************)
(* C4: when the whole mask row of a query position is zero, every score of *)
(* the row is replaced by the same sentinel before the softmax, the        *)
(* softmax row is the (near-)uniform distribution over the key positions,  *)
(* and the returned row holds no NaN.                                      *)
(***************************************************************************)
C4_AllMaskedRowDefined ==
    (AttentionDone /\ args.mask # NoMask) =>
        \A i \in 1..args.L :
            ~RowHasUnmasked(i) =>
                /\ \A j \in 1..args.L : AttentionResult.filled[i][j] = Sentinel
                /\ \A j \in 1..args.L :
                       /\ AttentionResult.soft[i][j] # NaN
                       /\ Abs(AttentionResult.soft[i][j] * args.L - WeightScale)
                              <= args.L
                       /\ AttentionResult.weights[i][j] # NaN
                /\ \A c \in 1..Len(AttentionResult.out[i]) :
                       AttentionResult.out[i][c] # NaN

\* a call of length >= 2 whose second mask row is all zero while the first
\* is not, and whose scores differ within the masked row
C4_Witness ==
    /\ AttentionDone
    /\ args.L >= 2
    /\ args.mask = RowZeroMask(args.L, {2})
    /\ AttentionResult.scores[2][1] # AttentionResult.scores[2][2]
    /\ AttentionResult.soft[2][1] = AttentionResult.soft[2][2]
    /\ AttentionResult.soft[2][1] > 0

(***************************************************************************)
(* C1: constructing multi-head attention with a d_model that is not a      *)
(* multiple of h fails with a configuration error.                         *)
(***************************************************************************)
MHAInitDone == scenario = "mha_init" /\ pc = "done"

\* what a Python constructor raises to reject its arguments
ConfigurationErrors == {"ValueError", "AssertionError"}

C1_IndivisibleWidthRejected ==
    (MHAInitDone /\ args.d_model % args.h # 0) =>
        results[1].raised \in ConfigurationErrors

(***************************************************************************)
(* C5: with h = 1 the forward pass of multi-head attention returns the     *)
(* output projection of the scaled dot-product attention of the projected  *)
(* query, key and value (the head split and merge are the identity).       *)
(***************************************************************************)
MHAForwardDone == scenario = "mha_forward" /\ pc = "done"

C5_SingleHeadIsPlainAttention ==
    (MHAForwardDone /\ args.h = 1) =>
        /\ results[1].raised = "none"
        /\ results[1].out = results[1].projected_attention

(***************************************************************************)
(* C6: after a forward call of multi-head attention the block holds its    *)
(* configuration and parameters and nothing else: no attribute was set on  *)
(* it during the call.                                                     *)
(***************************************************************************)
C6_NothingRetained ==
    MHAForwardDone => results[1].stored = {}

(***************************************************************************)
(* C10: in a forward pass of multi-head attention with h * d_k = d_model,  *)
(* splitting the projected tensor into heads and merging the heads again   *)
(* gives the tensor back, feature by feature.                              *)
(***************************************************************************)
C10_SplitMergeRoundTrip ==
    (MHAForwardDone /\ args.d_model % args.h = 0) =>
        /\ results[1].raised = "none"
        /\ \A p \in 1..args.L : \A c \in 1..args.d_model :
               results[1].merged[p][c] = results[1].split[p][c]

(***************************************************************************)
(* C7: with dropout disabled, two forward passes of one encoder block on   *)
(* the same input and mask return the same output.                         *)
(***************************************************************************)
EncoderBlockDone == scenario = "encoder_block" /\ pc = "done"

C7_SameInputSameOutput ==
    (EncoderBlockDone
        /\ ~DropoutActive(args.self.residual_connections[1].dropout)) =>
        \A c \in 1..Len(results) :
            /\ results[c].raised = "none"
            /\ results[c].out = results[1].out

(***************************************************************************)
(* C8: a forward pass of the encoder stack applies every block once, in    *)
(* list order, the self-attention sublayer of a block before its           *)
(* feed-forward sublayer, each block on the previous block's output, and   *)
(* the final normalization once, last.                                     *)
(***************************************************************************)
EncoderDone == scenario = "encoder" /\ pc = "done"

SublayerCalls(trace) ==
    LET calls == SelectSeq(trace, LAMBDA e : e.event.op = "sublayer")
    IN  [k \in 1..Len(calls) |-> <<calls[k].layer, calls[k].event.kind>>]

ExpectedSublayerCalls(N) ==
    [k \in 1..(2 * N) |->
        <<(k + 1) \div 2,
          IF k % 2 = 1 THEN "self_attention_lambda"
          ELSE "feed_forward_lambda">>]

C8_BlocksInOrderThenNorm ==
    EncoderDone =>
        LET r == results[1]
            N == Len(args.self.layers)
            n == Len(r.trace)
        IN  /\ r.raised = "none"
            /\ SublayerCalls(r.trace) = ExpectedSublayerCalls(N)
            /\ r.trace[1].event.arg = args.x
            /\ r.trace[n].layer = 0
            /\ \A e \in 1..(n - 1) : r.trace[e].layer # 0
            /\ r.out = r.trace[n].event.val

(***************************************************************************)
(* C9: the residual connection returns x + dropout(f(normalize(x))): the   *)
(* normalization is applied to the input before the sublayer and to        *)
(* nothing else, the sublayer is invoked exactly once, on the normalized   *)
(* input, and the un-normalized x is the term added back.                  *)
(***************************************************************************)
ResidualDone == scenario = "residual" /\ pc = "done"

C9_PreNormResidual ==
    ResidualDone =>
        LET r      == results[1]
            normed == LayerNorm(args.self.norm, args.x)
            fx     == ApplySublayer(args.sublayer, normed).val
        IN  /\ r.raised = "none"
            /\ r.out = Add(args.x,
                           DropoutTensor(args.self.dropout, fx, args.keep))
            /\ [e \in 1..Len(r.trace) |-> r.trace[e].op]
                   = <<"norm", "sublayer", "dropout", "add">>
            /\ r.trace[1].arg = args.x
            /\ r.trace[2].arg = normed
            /\ r.trace[3].arg = fx
            /\ r.trace[4].lhs = args.x

\* a call whose input is changed by the normalization, whose sublayer
\* changes the normalized input, and whose dropout is active and drops one
\* feature
C9_Witness ==
    /\ ResidualDone
    /\ results[1].raised = "none"
    /\ results[1].trace[1].val # args.x
    /\ results[1].trace[2].val # results[1].trace[2].arg
    /\ DropoutActive(args.self.dropout)
    /\ results[1].trace[3].val # results[1].trace[3].arg
    /\ results[1].out # args.x
====
